---- MODULE Spec2Model ----
(***************************************************************************)
(* Plugin manager of Capture_Push (src/core/plugins/plugin_manager.py):    *)
(* version comparison, the plugin index cache (memory, disk file, legacy   *)
(* file), the update check, the installer and the plugin loader.           *)
(*                                                                         *)
(* Strings whose characters matter (version strings) are sequences of     *)
(* one-character strings, so that split, isdigit, int and strip are        *)
(* computed and not assumed.  Other strings (school codes, URLs, digests)  *)
(* are only compared for equality and are TLA+ strings.                    *)
(***************************************************************************)
EXTENDS Integers, Sequences, FiniteSets, TLC

\* ------------------------------------------------------------------ bounds
\* Longest version string enumerated by the comparator specification.
MaxVerLen == 3
\* Last value of the clock (unix seconds), which starts at 0.
MaxTime == 1
\* Most backup directories the plugins directory may hold.
MaxBackups == 2

\* ---------------------------------------------------------------- strings
Digits == {"0", "1", "2", "3", "4", "5", "6", "7", "8", "9"}
Whitespace == {" "}

DigitVal(c) ==
    CASE c = "0" -> 0 [] c = "1" -> 1 [] c = "2" -> 2 [] c = "3" -> 3
      [] c = "4" -> 4 [] c = "5" -> 5 [] c = "6" -> 6 [] c = "7" -> 7
      [] c = "8" -> 8 [] c = "9" -> 9

\* str.replace(old, new) for one-character old and new.
replace(s, old, new) == [i \in 1..Len(s) |-> IF s[i] = old THEN new ELSE s[i]]

\* str.split(sep): the pieces between the separators, empty pieces included
\* ("".split(".") is [""], "1..2".split(".") is ["1", "", "2"]).
RECURSIVE split(_, _)
split(s, sep) ==
    IF \A i \in 1..Len(s) : s[i] # sep
    THEN <<s>>
    ELSE LET k == CHOOSE i \in 1..Len(s) :
                      /\ s[i] = sep
                      /\ \A j \in 1..(i - 1) : s[j] # sep
         IN  <<SubSeq(s, 1, k - 1)>> \o split(SubSeq(s, k + 1, Len(s)), sep)

\* str.isdigit(): non-empty and every character a digit.
isdigit(x) == Len(x) > 0 /\ \A i \in 1..Len(x) : x[i] \in Digits

\* int(x) of a digit string.
RECURSIVE int(_)
int(x) ==
    IF Len(x) = 0 THEN 0
    ELSE 10 * int(SubSeq(x, 1, Len(x) - 1)) + DigitVal(x[Len(x)])

\* str.strip(): leading and trailing whitespace removed.
RECURSIVE strip(_)
strip(s) ==
    IF Len(s) = 0 THEN s
    ELSE IF s[1] \in Whitespace THEN strip(Tail(s))
    ELSE IF s[Len(s)] \in Whitespace THEN strip(SubSeq(s, 1, Len(s) - 1))
    ELSE s

\* ----------------------------------------------------- JSON/Python values
\* A value that is a string, a number, or missing (a key that is absent, a
\* file that does not exist).  s holds the characters of a string.
Str(s) == [t |-> "str", s |-> s]
Num(s) == [t |-> "num", s |-> s]
Absent == [t |-> "absent", s |-> <<>>]
\* A file that exists and whose read raises (a directory of that name, bytes
\* that are not UTF-8, no permission).
Unreadable == [t |-> "unreadable", s |-> <<>>]

\* ------------------------------------------------------ version comparator
\* [int(x) for x in v.replace('-', '.').replace('_', '.').split('.') if x.isdigit()]
parts(v) ==
    LET segs == split(replace(replace(v, "-", "."), "_", "."), ".")
    IN  [i \in 1..Len(SelectSeq(segs, isdigit)) |-> int(SelectSeq(segs, isdigit)[i])]

\* parts.extend([0] * (max_len - len(parts)))
extend(p, max_len) == [i \in 1..max_len |-> IF i <= Len(p) THEN p[i] ELSE 0]

\* for p1, p2 in zip(parts1, parts2): the first unequal pair decides.
RECURSIVE compare_zip(_, _)
compare_zip(p1, p2) ==
    IF Len(p1) = 0 \/ Len(p2) = 0 THEN 0
    ELSE IF p1[1] > p2[1] THEN 1
    ELSE IF p1[1] < p2[1] THEN -1
    ELSE compare_zip(Tail(p1), Tail(p2))

\* A plausible bug: the padding is left out, zip() stops at the shorter list.
compare_version_nopad(v1, v2) ==
    IF v1.t # "str" \/ v2.t # "str" THEN 0
    ELSE compare_zip(parts(v1.s), parts(v2.s))

\* A plausible bug: a value that is not a string is compared as str(value).
compare_version_coerce(v1, v2) ==
    LET parts1 == parts(v1.s)
        parts2 == parts(v2.s)
        max_len == IF Len(parts1) > Len(parts2) THEN Len(parts1) ELSE Len(parts2)
    IN  compare_zip(extend(parts1, max_len), extend(parts2, max_len))

\* PluginManager._compare_version: v1 and v2 are values; a value that is not
\* a string has no replace(), the exception is caught and 0 returned.
_compare_version(v1, v2) ==
    IF v1.t # "str" \/ v2.t # "str" THEN 0
    ELSE LET parts1 == parts(v1.s)
             parts2 == parts(v2.s)
             max_len == IF Len(parts1) > Len(parts2) THEN Len(parts1) ELSE Len(parts2)
         IN  compare_zip(extend(parts1, max_len), extend(parts2, max_len))

\* ------------------------------------------------------------- index data
Codes == {"10546", "12345"}

\* download_url and sha256 are only tested for truth and compared: None
\* (a missing key or a null) and "" are the two falsy values.
None == "<None>"
Truthy(x) == x # None /\ x # ""

\* A PluginRecord of the index, also the descriptor check_plugin_update
\* returns (the record with remote_version and local_version added).
Rec(code, pv, sha, url) ==
    [school_code |-> code, plugin_version |-> pv, sha256 |-> sha,
     download_url |-> url, remote_version |-> Absent, local_version |-> Absent]

V(s) == Str(s)
V1 == Str(<<"1">>)
V2 == Str(<<"2">>)
V2sp == Str(<<"2", " ">>)
Vsp15 == Str(<<" ", "1", ".", "5">>)
V20240601 == Str(<<"2", "0", "2", "4", "0", "6", "0", "1">>)
V000 == Str(<<"0", ".", "0", ".", "0">>)
Vunknown == Str(<<"u", "n", "k", "n", "o", "w", "n">>)

\* An index document: "array" is a bare JSON array of records, "object" an
\* object with a 'plugins' array, "object_num" an object whose 'plugins' is
\* a number, "corrupt" a file that is not JSON, "none" no document (None,
\* no file).
\* origin is history, not data: "new" marks a document that came from the
\* network since the last force refresh began, "old" one that was stored
\* locally (memory, index file, legacy file) before that.
Doc(kind, plugins, origin) == [kind |-> kind, plugins |-> plugins, origin |-> origin]
NoDoc == Doc("none", <<>>, "old")
Old(d) == IF d.kind = "none" THEN d ELSE [d EXCEPT !.origin = "old"]
Content(d) == [kind |-> d.kind, plugins |-> d.plugins]

\* Python truth of an index value: None, [] and {} are false; an object
\* with a 'plugins' key is true even when the array is empty.
TruthyDoc(d) ==
    /\ d.kind # "none"
    /\ d.kind = "array" => Len(d.plugins) > 0

\* What the index URL may serve.
ObjDoc ==
    Doc("object",
        <<Rec("12345", V1, "shaA", "urlA"),
          Rec("10546", V2, "shaA", "urlA"),
          Rec("10546", V1, "", "")>>, "new")
ArrayDoc == Doc("array", <<Rec("10546", V20240601, "shaA", "urlA")>>, "new")
EmptyArrayDoc == Doc("array", <<>>, "new")
NumPluginsDoc == Doc("object_num", <<>>, "new")
NetDocs == {ObjDoc, ArrayDoc, EmptyArrayDoc, NumPluginsDoc}

\* An index whose record has a version string that begins with a blank.
SpaceDoc == Doc("object", <<Rec("12345", Vsp15, "shaA", "urlA")>>, "new")

\* An index file that json.load cannot decode.
CorruptDoc == Doc("corrupt", <<>>, "old")

\* The index file between open(..., 'w'), which truncates it, and the end of
\* json.dump: json.load of it raises JSONDecodeError.
PartialDoc == Doc("partial", <<>>, "new")

\* A legacy plugins_index.json left in the plugins directory by an old version.
LegacyDoc == Doc("object", <<Rec("10546", V1, "shaA", "urlA")>>, "old")

\* The outcome of one HTTP request for the index: a decoded document, an
\* HTTP error status, a transport error (URLError), or a body that is not JSON.
Net(k, doc) == [k |-> k, doc |-> doc]
NetFailures == {Net("http", NoDoc), Net("url", NoDoc), Net("badjson", NoDoc)}
NetIndexOutcomes == {Net("ok", d) : d \in NetDocs} \cup NetFailures

\* --------------------------------------------------------- the index cache
\* The index state is s = [cache, file, legacy]: self.plugins_index_cache,
\* the file data_dir/plugins_index.json and plugins_dir/plugins_index.json.
\* A method is the set of its possible outcomes [cache, file, ret, reqs]:
\* the state it leaves, what it returns and the requests it issued, each
\* with the outcome it had: "ok", "http", "url" or "badjson" for a direct
\* request, "ok" or "failed" for a proxy request, whose handler is
\* except Exception for every failure.
Req(req, k) == [req |-> req, k |-> k]
ProxyReq(req, k) == Req(req, IF k = "ok" THEN "ok" ELSE "failed")
Out(cache, file, ret, reqs) == [cache |-> cache, file |-> file, ret |-> ret, reqs |-> reqs]

\* PluginManager.get_local_plugins_index: [ret, file].  The index file if
\* it exists, else the legacy file, copied to the index file and loaded.
get_local_plugins_index(file, legacy) ==
    IF file.kind \in {"corrupt", "partial"} THEN [ret |-> NoDoc, file |-> file]
    ELSE IF file.kind # "none" THEN [ret |-> file, file |-> file]
    ELSE IF legacy.kind # "none" THEN [ret |-> legacy, file |-> legacy]
    ELSE [ret |-> NoDoc, file |-> file]

\* The index file when a handler reads it again: as it was before the
\* requests, or written meanwhile by another process of the application
\* (the data directory is shared), with an index that process downloaded.
FileAtFallback(file) == {file, ObjDoc}

\* A plausible bug: a failed network step gives up without the second read.
fetch_fallback_gives_up(s, file, reqs) ==
    {Out(s.cache, f, NoDoc, reqs) : f \in FileAtFallback(file)}

\* The handlers of a failed network step: the local index once more.
fetch_fallback_local(s, file, reqs) ==
    {LET l == get_local_plugins_index(f, s.legacy)
     IN  IF TruthyDoc(l.ret) THEN Out(l.ret, l.file, l.ret, reqs)
         ELSE Out(s.cache, l.file, NoDoc, reqs)
       : f \in FileAtFallback(file)}

\* A plausible bug: the index read from disk is returned but not cached.
fetch_from_local_no_backfill(s, l) == Out(s.cache, l.file, l.ret, <<>>)

\* Lines 579-583: the local index l = [ret, file] is cached and returned.
fetch_from_local(s, l) == Out(l.ret, l.file, l.ret, <<>>)

\* The proxy attempt of _fetch_plugins_index (HTTPError and URLError handlers).
fetch_via_proxy(s, file, k) ==
    UNION {
        IF p.k = "ok"
        THEN {Out(p.doc, p.doc, p.doc, <<Req("index", k), ProxyReq("index_proxy", p.k)>>)}
        ELSE fetch_fallback_local(s, file, <<Req("index", k), ProxyReq("index_proxy", p.k)>>)
        : p \in NetIndexOutcomes}

\* PluginManager._fetch_plugins_index.
_fetch_plugins_index(s) ==
    IF TruthyDoc(s.cache) THEN {Out(s.cache, s.file, s.cache, <<>>)}
    ELSE LET l == get_local_plugins_index(s.file, s.legacy)
         IN  IF TruthyDoc(l.ret) THEN {fetch_from_local(s, l)}
             ELSE UNION {
                 CASE o.k = "ok" -> {Out(o.doc, o.doc, o.doc, <<Req("index", "ok")>>)}
                   [] o.k = "http" -> fetch_via_proxy(s, l.file, "http")
                   [] o.k = "url" -> fetch_via_proxy(s, l.file, "url")
                   [] o.k = "badjson" ->
                        fetch_fallback_local(s, l.file, <<Req("index", "badjson")>>)
                 : o \in NetIndexOutcomes}

\* PluginManager.update_plugins_index: ret is the boolean it returns,
\* "True" or "False", or "raise" when the call ends with an exception.  The
\* HTTPError handler reads the body of the error response for its log line
\* (line 143) outside any try: when that read raises (the connection breaks,
\* the read times out) the exception leaves the method.
update_plugins_index(s) ==
    UNION {
        CASE o.k = "ok" -> {Out(o.doc, o.doc, "True", <<Req("index", "ok")>>)}
          [] o.k = "http" ->
               {Out(s.cache, s.file, r, <<Req("index", "http")>>) : r \in {"False", "raise"}}
          [] o.k = "badjson" -> {Out(s.cache, s.file, "False", <<Req("index", "badjson")>>)}
          [] o.k = "url" ->
               {Out(IF p.k = "ok" THEN p.doc ELSE s.cache,
                    IF p.k = "ok" THEN p.doc ELSE s.file,
                    IF p.k = "ok" THEN "True" ELSE "False",
                    <<Req("index", "url"), ProxyReq("index_proxy", p.k)>>)
                  : p \in NetIndexOutcomes}
        : o \in NetIndexOutcomes}

\* A plausible bug: the index file is deleted with the cache.
clear_cache_and_file(s) == [s EXCEPT !.cache = NoDoc, !.file = NoDoc]

\* PluginManager.clear_plugins_index_cache.
clear_plugins_index_cache(s) == [s EXCEPT !.cache = NoDoc]

\* A plausible bug: the index file is unlinked but the cache is not cleared.
force_refresh_without_clear(s) ==
    LET before == [cache |-> Old(s.cache), file |-> Old(s.file), legacy |-> Old(s.legacy)]
        unlinked == [before EXCEPT !.file = NoDoc]
    IN  {Out(o.cache, o.file, TruthyDoc(o.ret), o.reqs) : o \in _fetch_plugins_index(unlinked)}

\* A plausible change: a refresh that fails puts back the index it removed.
force_refresh_restore_on_failure(s) ==
    LET before == [cache |-> Old(s.cache), file |-> Old(s.file), legacy |-> Old(s.legacy)]
        cleared == clear_plugins_index_cache(before)
        unlinked == [cleared EXCEPT !.file = NoDoc]
    IN  {IF TruthyDoc(o.ret) THEN Out(o.cache, o.file, TRUE, o.reqs)
         ELSE Out(before.cache, before.file, FALSE, o.reqs)
           : o \in _fetch_plugins_index(unlinked)}

\* PluginManager.force_refresh_plugins_index: the cache cleared, the index
\* file unlinked, then _fetch_plugins_index; ret is the boolean.
force_refresh_plugins_index(s) ==
    LET before == [cache |-> Old(s.cache), file |-> Old(s.file), legacy |-> Old(s.legacy)]
        cleared == clear_plugins_index_cache(before)
        unlinked == [cleared EXCEPT !.file = NoDoc]
    IN  {Out(o.cache, o.file, TruthyDoc(o.ret), o.reqs) : o \in _fetch_plugins_index(unlinked)}

\* The first position of plugins_list whose record has school_code, 0 if none.
first_match(plugins_list, school_code) ==
    IF \E i \in 1..Len(plugins_list) : plugins_list[i].school_code = school_code
    THEN CHOOSE i \in 1..Len(plugins_list) :
             /\ plugins_list[i].school_code = school_code
             /\ \A j \in 1..(i - 1) : plugins_list[j].school_code # school_code
    ELSE 0

\* The scan of get_plugin_info_from_index over a fetched index: the
\* position of the record it returns, 0 for None.  Only a dict is scanned.
index_lookup(plugins_index, school_code) ==
    IF ~TruthyDoc(plugins_index) THEN 0
    ELSE IF plugins_index.kind = "object"
         THEN first_match(plugins_index.plugins, school_code)
         ELSE 0

\* len(plugins_list) at line 997 raises TypeError when 'plugins' is a number.
index_raises(plugins_index) ==
    TruthyDoc(plugins_index) /\ plugins_index.kind = "object_num"

\* PluginManager.get_plugin_info_from_index: ret is [pos, rec, raised]; the
\* record returned is the object held in the cache, at plugins[pos];
\* raised tells that the call ended with an exception instead of a value.
NoRec == Rec(None, Absent, None, None)
get_plugin_info_from_index(s, school_code) ==
    {LET pos == index_lookup(o.ret, school_code)
     IN  Out(o.cache, o.file,
             [pos |-> pos, rec |-> IF pos = 0 THEN NoRec ELSE o.ret.plugins[pos],
              raised |-> index_raises(o.ret)],
             o.reqs)
       : o \in _fetch_plugins_index(s)}

\* ------------------------------------------------------ plugin directories
\* A plugin directory plugins_dir/<school_code>: entry is its __init__.py
\* ("none": no such file, "ok": it loads, "raises": executing it raises),
\* init_version the VERSION/PLUGIN_VERSION constant read from it,
\* version_txt the content of version.txt, payload the other files.
Dir(entry, init_version, version_txt, payload) ==
    [entry |-> entry, init_version |-> init_version,
     version_txt |-> version_txt, payload |-> payload]
NoDir == Dir("nodir", Absent, Absent, "")

\* A plausible bug: the constant of __init__.py is preferred to version.txt.
get_local_plugin_version_init_first(dir) ==
    IF dir.entry \in {"ok", "raises"} /\ dir.init_version.t = "str" THEN dir.init_version
    ELSE IF dir.version_txt.t = "str" THEN Str(strip(dir.version_txt.s))
    ELSE V000

\* A plausible bug: the reads are outside the try block, a failed read of
\* version.txt reaches the caller.
get_local_plugin_version_unguarded(dir) ==
    IF dir.version_txt.t = "unreadable" THEN [t |-> "raise", s |-> <<>>]
    ELSE IF dir.version_txt.t = "str" THEN Str(strip(dir.version_txt.s))
    ELSE IF dir.entry \in {"ok", "raises"} /\ dir.init_version.t = "str" THEN dir.init_version
    ELSE V000

\* PluginManager._get_local_plugin_version, of the directory of school_code.
\* version.txt is read when it exists; a read that raises is caught and the
\* default returned, __init__.py is not tried then.
_get_local_plugin_version(dir) ==
    IF dir.version_txt.t = "unreadable" THEN V000
    ELSE IF dir.version_txt.t = "str" THEN Str(strip(dir.version_txt.s))
    ELSE IF dir.entry \in {"ok", "raises"} /\ dir.init_version.t = "str" THEN dir.init_version
    ELSE V000

\* ------------------------------------------------------------ release API
\* An asset name: "exact" is school_<code>_plugin.zip, "prefixed" a name
\* that contains it and ends in .zip, "zip" another .zip, "other" no .zip.
Asset(kind, code, url, sha) == [kind |-> kind, code |-> code, url |-> url, sha |-> sha]

\* The release document: body is what the free text yields (code: the
\* school code it mentions, info: the record _parse_plugin_info extracts
\* for that code, version: a "plugin_version": "..." field, sha: the first
\* run of 64 hex digits), assets the attachments, tag_name the tag.
Release(body, assets, tag_name) == [body |-> body, assets |-> assets, tag_name |-> tag_name]
Body(code, info, version, sha) == [code |-> code, info |-> info, version |-> version, sha |-> sha]
NoBody == Body(None, NoRec, Absent, "")
NoRelease == Release(NoBody, <<>>, <<>>)

RelNamed ==
    Release(NoBody,
            <<Asset("other", None, "urlN", None), Asset("exact", "10546", "urlA", "shaA")>>,
            <<"v", "3">>)
RelZipOnly == Release(NoBody, <<Asset("zip", None, "urlA", None)>>, <<"v", "3">>)
RelBody ==
    Release(Body("10546", Rec("10546", V2, "shaA", None), Absent, "shaA"), <<>>, <<"v", "3">>)
RelEmpty == Release(NoBody, <<>>, <<"v", "3">>)
Releases == {RelNamed, RelZipOnly, RelBody, RelEmpty}

ApiOutcomes ==
    {[k |-> "ok", data |-> r] : r \in Releases}
      \cup {[k |-> f, data |-> NoRelease] : f \in {"http", "url", "badjson"}}

\* tag_name.lstrip('v')
RECURSIVE lstrip_v(_)
lstrip_v(s) == IF Len(s) > 0 /\ s[1] = "v" THEN lstrip_v(Tail(s)) ELSE s

\* PluginManager._parse_plugin_info(body, school_code): NoRec for None.
_parse_plugin_info(body, school_code) ==
    IF body.code = school_code THEN body.info ELSE NoRec

\* for asset in assets: the position of the first asset among the
\* matching ones, 0 when the loop ends without a match.
FirstAsset(assets, matching) ==
    IF \E i \in 1..Len(assets) : assets[i] \in matching
    THEN CHOOSE i \in 1..Len(assets) :
             assets[i] \in matching /\ \A j \in 1..(i - 1) : assets[j] \notin matching
    ELSE 0

\* The assets of a list.
AssetsOf(assets) == {assets[i] : i \in 1..Len(assets)}

\* PluginManager._infer_plugin_info_from_assets: the asset named for the
\* school, else the first .zip asset; NoRec for None.
_infer_plugin_info_from_assets(assets, school_code, release_data) ==
    LET named(a) == a.kind = "exact" /\ a.code = school_code
        zip(a) == a.kind \in {"exact", "prefixed", "zip"}
        n == FirstAsset(assets, {a \in AssetsOf(assets) : named(a)})
        z == FirstAsset(assets, {a \in AssetsOf(assets) : zip(a)})
        tag == Str(lstrip_v(release_data.tag_name))
        body == release_data.body
    IN  IF n > 0
        THEN Rec(school_code,
                 IF body.version.t = "str" THEN body.version ELSE tag,
                 IF body.code = school_code /\ Truthy(body.sha) THEN body.sha
                 ELSE IF Truthy(assets[n].sha) THEN assets[n].sha ELSE "",
                 assets[n].url)
        ELSE IF z > 0 THEN Rec(school_code, tag, "", assets[z].url)
        ELSE NoRec

\* PluginManager._get_download_url: the asset named for the school, else
\* the first whose name contains that name, else None.
_get_download_url(release_data, school_code) ==
    LET named(a) == a.kind = "exact" /\ a.code = school_code
        contains(a) == a.kind \in {"exact", "prefixed"} /\ a.code = school_code
        n == FirstAsset(release_data.assets, {a \in AssetsOf(release_data.assets) : named(a)})
        c == FirstAsset(release_data.assets, {a \in AssetsOf(release_data.assets) : contains(a)})
    IN  IF n > 0 THEN release_data.assets[n].url
        ELSE IF c > 0 THEN release_data.assets[c].url
        ELSE None

\* ------------------------------------------------------------ update check
RetNone == [kind |-> "none", desc |-> NoRec]
RetDesc(d) == [kind |-> "desc", desc |-> d]

\* plugin_info.get('plugin_version', '0.0.0')
remote_version_of(plugin_info) ==
    IF plugin_info.plugin_version.t = "absent" THEN V000 ELSE plugin_info.plugin_version

\* check_plugin_update on a record found in the index, at plugins[pos] of
\* the cached index o.cache: the descriptor is that same object, so the
\* two versions are added to the record the cache holds.
check_from_index(o, pos, dir) ==
    LET plugin_info == o.cache.plugins[pos]
        remote_version == remote_version_of(plugin_info)
        local_version == _get_local_plugin_version(dir)
        d == [plugin_info EXCEPT !.remote_version = remote_version,
                                 !.local_version = local_version]
    IN  IF _compare_version(remote_version, local_version) > 0
        THEN Out([o.cache EXCEPT !.plugins[pos] = d], o.file, RetDesc(d), o.reqs)
        ELSE Out(o.cache, o.file, RetNone, o.reqs)

\* check_plugin_update on release data: the body's record, else the one
\* inferred from the assets; download_url is set from _get_download_url.
check_from_release(o, data, school_code, dir, reqs) ==
    LET parsed == _parse_plugin_info(data.body, school_code)
        plugin_info == IF parsed # NoRec THEN parsed
                       ELSE _infer_plugin_info_from_assets(data.assets, school_code, data)
        remote_version == remote_version_of(plugin_info)
        local_version == _get_local_plugin_version(dir)
    IN  IF plugin_info = NoRec THEN Out(o.cache, o.file, RetNone, reqs)
        ELSE IF _compare_version(remote_version, local_version) > 0
        THEN Out(o.cache, o.file,
                 RetDesc([plugin_info EXCEPT
                             !.download_url = _get_download_url(data, school_code),
                             !.remote_version = remote_version,
                             !.local_version = local_version]),
                 reqs)
        ELSE Out(o.cache, o.file, RetNone, reqs)

\* The URLError handler of check_plugin_update (HTTPError is a URLError):
\* the release through the proxy, then the index once more, then the release.
check_via_proxy(o, legacy, school_code, dir, k) ==
    UNION {
        LET issued == o.reqs \o <<Req("api", k), ProxyReq("api_proxy", p.k)>>
        IN
        IF p.k # "ok" THEN {Out(o.cache, o.file, RetNone, issued)}
        ELSE {IF o2.ret.raised THEN Out(o2.cache, o2.file, RetNone, issued \o o2.reqs)
              ELSE IF o2.ret.pos > 0
              THEN check_from_index([o2 EXCEPT !.reqs = issued \o o2.reqs], o2.ret.pos, dir)
              ELSE check_from_release(o2, p.data, school_code, dir, issued \o o2.reqs)
                : o2 \in get_plugin_info_from_index(
                             [cache |-> o.cache, file |-> o.file, legacy |-> legacy],
                             school_code)}
        : p \in ApiOutcomes}

\* PluginManager.check_plugin_update; dir is the plugin directory of school_code.
check_plugin_update(s, school_code, dir) ==
    UNION {
        IF o.ret.raised THEN {Out(o.cache, o.file, RetNone, o.reqs)}
        ELSE IF o.ret.pos > 0 THEN {check_from_index(o, o.ret.pos, dir)}
        ELSE UNION {
            CASE a.k = "ok" ->
                   {check_from_release(o, a.data, school_code, dir,
                                       o.reqs \o <<Req("api", "ok")>>)}
              [] a.k = "badjson" ->
                   {Out(o.cache, o.file, RetNone, o.reqs \o <<Req("api", "badjson")>>)}
              [] a.k \in {"http", "url"} ->
                   check_via_proxy(o, s.legacy, school_code, dir, a.k)
            : a \in ApiOutcomes}
        : o \in get_plugin_info_from_index(s, school_code)}

\* --------------------------------------------------------------- installer
\* What a download URL serves: the archive's digest, whether it is a
\* readable ZIP, and the directory it extracts to.  Other URLs serve nothing.
Zip(sha, readable, dir) == [sha |-> sha, readable |-> readable, dir |-> dir]
ZipA == Zip("shaA", TRUE, Dir("ok", Str(<<"3">>), Str(<<"9">>), "zipA"))
ZipX == Zip("shaX", FALSE, NoDir)
Served == {"urlA", "urlX"}
ZipAt(url) == IF url = "urlA" THEN ZipA ELSE ZipX

\* core.updater.download_file(url, destination, expected_checksum): the set
\* of its possible results.  It fails when the transfer fails, and when a
\* checksum is given and the file's SHA-256 differs from it.
download_file(url, expected_checksum) ==
    {FALSE} \cup
    IF url \in Served /\ (Truthy(expected_checksum) => expected_checksum = ZipAt(url).sha)
    THEN {TRUE} ELSE {}

\* A backup directory plugins_dir/backup_<code>_<ts>: dir is what it holds,
\* nested the directories moved inside it under the name <code>.
Backup(code, ts, dir, nested) == [code |-> code, ts |-> ts, dir |-> dir, nested |-> nested]

\* An outcome of the installer: the plugins directory it leaves, what it
\* returns, and the download it made ("download_ok", "download_failed").
Fs(plugins, backups, ret, reqs) ==
    [plugins |-> plugins, backups |-> backups, ret |-> ret, reqs |-> reqs]

\* shutil.move(final_plugin_dir, backup_dir) when final_plugin_dir exists:
\* a rename when backup_dir does not exist; when it does, the directory is
\* moved inside it, and shutil.Error is raised if the name is taken there.
\* ret tells whether no exception was raised.
backup_existing(fs, school_code, now_) ==
    LET dir == fs.plugins[school_code]
        same == {b \in fs.backups : b.code = school_code /\ b.ts = now_}
        moved == [fs.plugins EXCEPT ![school_code] = NoDir]
    IN  IF dir = NoDir THEN Fs(fs.plugins, fs.backups, TRUE, fs.reqs)
        ELSE IF same = {}
        THEN Fs(moved, fs.backups \cup {Backup(school_code, now_, dir, <<>>)}, TRUE, fs.reqs)
        ELSE LET b == CHOOSE b \in same : TRUE
             IN  IF Len(b.nested) > 0 THEN Fs(fs.plugins, fs.backups, FALSE, fs.reqs)
                 ELSE Fs(moved, (fs.backups \ {b}) \cup {[b EXCEPT !.nested = <<dir>>]},
                         TRUE, fs.reqs)

\* A plausible bug: version.txt is written although the extraction failed.
extract_and_write_anyway(fs, school_code, plugin_info, zip) ==
    LET version == IF plugin_info.plugin_version.t = "absent" THEN Vunknown
                   ELSE plugin_info.plugin_version
        extracted == [fs.plugins EXCEPT ![school_code] =
                         IF zip.readable THEN zip.dir ELSE Dir("none", Absent, Absent, "")]
    IN  IF version.t # "str" THEN Fs(extracted, fs.backups, FALSE, fs.reqs)
        ELSE Fs([extracted EXCEPT ![school_code].version_txt = version],
                fs.backups, zip.readable, fs.reqs)

\* Lines 1171-1182: extractall, then version.txt written.  A ZIP that cannot
\* be read raises; so does write_text of a version that is not a string.
extract_and_write(fs, school_code, plugin_info, zip) ==
    LET version == IF plugin_info.plugin_version.t = "absent" THEN Vunknown
                   ELSE plugin_info.plugin_version
        extracted == [fs.plugins EXCEPT ![school_code] = zip.dir]
    IN  IF ~zip.readable THEN Fs(fs.plugins, fs.backups, FALSE, fs.reqs)
        ELSE IF version.t # "str" THEN Fs(extracted, fs.backups, FALSE, fs.reqs)
        ELSE Fs([extracted EXCEPT ![school_code].version_txt = version],
                fs.backups, TRUE, fs.reqs)

\* A plausible bug: the existing directory is backed up before the download.
install_backup_first(fs, school_code, plugin_info, now_) ==
    LET backed == backup_existing(Fs(fs.plugins, fs.backups, TRUE, <<>>), school_code, now_)
    IN  IF ~Truthy(plugin_info.download_url)
        THEN {Fs(backed.plugins, backed.backups, FALSE, <<>>)}
        ELSE {IF ~success
              THEN Fs(backed.plugins, backed.backups, FALSE, <<"download_failed">>)
              ELSE IF ~backed.ret
              THEN Fs(backed.plugins, backed.backups, FALSE, <<"download_ok">>)
              ELSE extract_and_write([backed EXCEPT !.reqs = <<"download_ok">>], school_code,
                                     plugin_info, ZipAt(plugin_info.download_url))
                : success \in download_file(plugin_info.download_url, plugin_info.sha256)}

\* PluginManager.download_and_install_plugin: the set of its outcomes, on
\* the plugins directory fs = [plugins, backups] at clock now_.
download_and_install_plugin(fs, school_code, plugin_info, now_) ==
    IF ~Truthy(plugin_info.download_url) THEN {Fs(fs.plugins, fs.backups, FALSE, <<>>)}
    ELSE {IF ~success THEN Fs(fs.plugins, fs.backups, FALSE, <<"download_failed">>)
          ELSE LET backed == backup_existing(
                                 Fs(fs.plugins, fs.backups, TRUE, <<"download_ok">>),
                                 school_code, now_)
               IN  IF ~backed.ret THEN Fs(fs.plugins, fs.backups, FALSE, <<"download_ok">>)
                   ELSE extract_and_write(backed, school_code, plugin_info,
                                          ZipAt(plugin_info.download_url))
            : success \in download_file(plugin_info.download_url, plugin_info.sha256)}

\* ------------------------------------------------------ concurrent callers
\* The manager is one object shared by the GUI thread and the worker
\* threads (PluginUpdateWorker); its methods take no lock.  A call in
\* progress on a thread: op the method, pc the line it stands at,
\* plugin_info its argument, exists what final_plugin_dir.exists() gave it,
\* ret what it returned ("True", "False", "None" while it runs).
Threads == {1, 2, 3}
Call(op, pc, plugin_info, exists, ret) ==
    [op |-> op, pc |-> pc, plugin_info |-> plugin_info, exists |-> exists, ret |-> ret]
IdleCall == Call("none", "idle", NoRec, FALSE, "None")

\* Lines 1117-1156 on a thread: the download; on failure the call returns.
install_download(call, plugin_info) ==
    IF ~Truthy(plugin_info.download_url)
    THEN {Call("install", "done", plugin_info, FALSE, "False")}
    ELSE {IF success THEN Call("install", "downloaded", plugin_info, FALSE, "None")
          ELSE Call("install", "done", plugin_info, FALSE, "False")
            : success \in download_file(plugin_info.download_url, plugin_info.sha256)}

\* A plausible change: a lock per school code taken before the directory is
\* looked at; the call waits while another one is between its pre-check and
\* its return.
install_precheck_locked(call, others, dir) ==
    IF \E o \in others : o.pc \in {"checked", "backed", "extracting", "extracted"}
    THEN {}
    ELSE {[call EXCEPT !.pc = IF dir # NoDir THEN "checked" ELSE "backed",
                       !.exists = dir # NoDir]}

\* Line 1165, if final_plugin_dir.exists(): the call goes on to the move or
\* past it, whatever the calls of the other threads are doing.
install_precheck(call, others, dir) ==
    {[call EXCEPT !.pc = IF dir # NoDir THEN "checked" ELSE "backed",
                  !.exists = dir # NoDir]}

\* Lines 1166-1168 on a thread: shutil.move of what is there now.  The
\* source may be gone (moved by another call since the pre-check): the move
\* raises and the call returns False.
install_move(call, fs, school_code, now_) ==
    LET moved == backup_existing(fs, school_code, now_)
    IN  IF fs.plugins[school_code] = NoDir \/ ~moved.ret
        THEN [call |-> [call EXCEPT !.pc = "done", !.ret = "False"], fs |-> fs]
        ELSE [call |-> [call EXCEPT !.pc = "backed"], fs |-> moved]

\* ZipFile.extractall writes the members one after the other, each over a
\* file of its name, creating the directory when it is missing: __init__.py
\* first (k = 1), then the other files.
EmptyDir == Dir("none", Absent, Absent, "")
extract_member(dir, zip, k) ==
    LET base == IF dir = NoDir THEN EmptyDir ELSE dir
    IN  IF k = 1
        THEN [base EXCEPT !.entry = zip.dir.entry, !.init_version = zip.dir.init_version]
        ELSE [base EXCEPT !.version_txt = zip.dir.version_txt, !.payload = zip.dir.payload]

\* Lines 1176-1182 on a thread: version.txt written into the directory;
\* write_text raises when the directory is gone or the version is no string.
install_write_version(call, dir) ==
    LET version == IF call.plugin_info.plugin_version.t = "absent" THEN Vunknown
                   ELSE call.plugin_info.plugin_version
    IN  IF dir = NoDir \/ version.t # "str"
        THEN [call |-> [call EXCEPT !.pc = "done", !.ret = "False"], dir |-> dir]
        ELSE [call |-> [call EXCEPT !.pc = "done", !.ret = "True"],
              dir |-> [dir EXCEPT !.version_txt = version]]

\* A call of _fetch_plugins_index or force_refresh_plugins_index in progress
\* on a thread: index_data is its local variable (local_index, index_data),
\* saw_partial tells that a read of the index file found it partly written.
IndexCall(op, pc, index_data, ret, saw_partial) ==
    [op |-> op, pc |-> pc, index_data |-> index_data, ret |-> ret,
     saw_partial |-> saw_partial]

\* Lines 575-577 on a thread: the cache is returned when it is true.
fetch_check_cache(op, cache_) ==
    IF TruthyDoc(cache_)
    THEN IndexCall(op, "done", cache_, IF op = "fetch" THEN "index" ELSE "True", FALSE)
    ELSE IndexCall(op, "local", NoDoc, "None", FALSE)

\* Lines 579-580 and the first line of the failure handlers on a thread:
\* get_local_plugins_index read into a local variable; [call, file].  From
\* pc "local" an index that is not true leads to the request, from pc
\* "fallback" to the return of None.
fetch_read_local(call, file_, legacy_) ==
    LET l == get_local_plugins_index(file_, legacy_)
        seen == call.saw_partial \/ file_.kind = "partial"
    IN  [file |-> l.file,
         call |-> IF TruthyDoc(l.ret)
                  THEN [call EXCEPT !.pc = "assign", !.index_data = l.ret, !.saw_partial = seen]
                  ELSE IF call.pc = "local"
                  THEN [call EXCEPT !.pc = "request", !.saw_partial = seen]
                  ELSE [call EXCEPT !.pc = "done", !.saw_partial = seen,
                                    !.ret = IF call.op = "fetch" THEN "None" ELSE "False"]]

\* Lines 589-614 on a thread: the request, direct and then through the
\* proxy; o is the outcome of the last of them.
fetch_request(call, o) ==
    IF o.k = "ok" THEN [call EXCEPT !.pc = "open", !.index_data = o.doc]
    ELSE [call EXCEPT !.pc = "fallback"]

\* A plausible change: the index is stored only while the cache is still
\* empty, a cache another thread has filled meanwhile is kept.
fetch_assign_if_empty(call, cache_) ==
    [cache |-> IF TruthyDoc(cache_) THEN cache_ ELSE call.index_data,
     call |-> [call EXCEPT !.pc = "done",
                           !.ret = IF call.op = "fetch" THEN "index"
                                   ELSE IF TruthyDoc(call.index_data) THEN "True" ELSE "False"]]

\* Lines 581-583 and 621-624 on a thread, self.plugins_index_cache = ...:
\* the call's index is stored whatever the cache holds; [cache, call].
fetch_assign(call, cache_) ==
    [cache |-> call.index_data,
     call |-> [call EXCEPT !.pc = "done",
                           !.ret = IF call.op = "fetch" THEN "index"
                                   ELSE IF TruthyDoc(call.index_data) THEN "True" ELSE "False"]]

\* ------------------------------------------------------------------ loader
\* A plausible bug: the exception of the entry module is not caught.
load_plugin_uncaught(dir, school_code, path) ==
    IF dir.entry = "ok" THEN [ret |-> "module", sys_path |-> path \ {school_code}]
    ELSE IF dir.entry = "raises" THEN [ret |-> "raise", sys_path |-> path \cup {school_code}]
    ELSE [ret |-> "None", sys_path |-> path]

\* PluginManager.load_plugin: [ret, sys_path].  The directory is put on
\* sys.path if it is not there, the entry module executed, and the
\* directory removed from sys.path; an exception skips the removal.
load_plugin(dir, school_code, path) ==
    IF dir.entry = "ok" THEN [ret |-> "module", sys_path |-> path \ {school_code}]
    ELSE IF dir.entry = "raises" THEN [ret |-> "None", sys_path |-> path \cup {school_code}]
    ELSE [ret |-> "None", sys_path |-> path]

\* ------------------------------------------------- the schedule linearizer
\* core/schedule_linearizer.py.  A schedule item carries 星期 (weekday),
\* 开始小节 (start), 结束小节 (end), 课程名称 (name) and 周次列表 (weeks);
\* 教师 and 教室 are copied along and never compared, they are left out.
MaxItems == 3
Weekdays == {1, 2}
CourseNames == <<"art", "math">>
PeriodRanges == {<<1, 1>>, <<2, 3>>, <<4, 4>>}
WeekLists == {<<1>>, <<2, 1>>}
MaxWeeks == 2

Item(weekday, name, start, end, weeks) ==
    [weekday |-> weekday, name |-> name, start |-> start, end |-> end, weeks |-> weeks]
Items ==
    {Item(d, CourseNames[n], p[1], p[2], w) :
        d \in Weekdays, n \in DOMAIN CourseNames, p \in PeriodRanges, w \in WeekLists}

\* entry = base_course.copy(); entry["周次"] = week (lines 69-81): the dict
\* of one week of one item.
Entry(item, week) ==
    [weekday |-> item.weekday, name |-> item.name, start |-> item.start,
     end |-> item.end, week |-> week]

\* The dicts are objects: a list holds references, and the merge writes
\* through one.  entry_alias stands for `entry = base_course`, one dict per
\* item; entry_object is the copy of line 80, a dict of its own for week
\* number j of item number i.
entry_alias(i, j) == (i - 1) * MaxWeeks + 1
entry_object(i, j) == (i - 1) * MaxWeeks + j

\* Step 1 (lines 64-82): week_courses[week].append(entry), item by item and
\* week by week, from item i and week position j on.
RECURSIVE expand_weeks(_, _, _, _)
expand_weeks(schedule_data, i, j, st) ==
    IF i > Len(schedule_data) THEN st
    ELSE IF j > Len(schedule_data[i].weeks) THEN expand_weeks(schedule_data, i + 1, 1, st)
    ELSE LET week == schedule_data[i].weeks[j]
             id == entry_object(i, j)
         IN  expand_weeks(schedule_data, i, j + 1,
                 [heap |-> [x \in DOMAIN st.heap \cup {id} |->
                               IF x = id THEN Entry(schedule_data[i], week)
                               ELSE st.heap[x]],
                  week_courses |->
                      [w \in DOMAIN st.week_courses \cup {week} |->
                          IF w = week
                          THEN (IF w \in DOMAIN st.week_courses
                                THEN st.week_courses[w] ELSE <<>>) \o <<id>>
                          ELSE st.week_courses[w]]])

\* The sort key of line 89, (星期, 课程名称, 开始小节), and tuple order; the
\* names compare as Python strings, here by their place in CourseNames.
sort_key(e) ==
    <<e.weekday, CHOOSE n \in DOMAIN CourseNames : CourseNames[n] = e.name, e.start>>
\* list.sort is stable: an entry goes behind every entry whose key is not
\* greater than its own.
RECURSIVE insert_sorted(_, _, _)
insert_sorted(sorted, id, heap) ==
    IF sorted = <<>> THEN <<id>>
    ELSE LET a == sort_key(heap[id])
             b == sort_key(heap[Head(sorted)])
         IN  IF \/ a[1] < b[1]
                \/ a[1] = b[1] /\ a[2] < b[2]
                \/ a[1] = b[1] /\ a[2] = b[2] /\ a[3] < b[3]
             THEN <<id>> \o sorted
             ELSE <<Head(sorted)>> \o insert_sorted(Tail(sorted), id, heap)

RECURSIVE sort_courses(_, _)
sort_courses(courses, heap) ==
    IF courses = <<>> THEN <<>>
    ELSE insert_sorted(sort_courses(SubSeq(courses, 1, Len(courses) - 1), heap),
                       courses[Len(courses)], heap)

\* The merge loop (lines 91-105) from position k on: [merged, heap].
RECURSIVE merge_courses(_, _, _, _)
merge_courses(courses, k, merged, heap) ==
    IF k > Len(courses) THEN [merged |-> merged, heap |-> heap]
    ELSE LET course == courses[k]
             last == merged[Len(merged)]
         IN  IF merged = <<>> THEN merge_courses(courses, k + 1, <<course>>, heap)
             ELSE IF /\ heap[last].weekday = heap[course].weekday
                     /\ heap[last].name = heap[course].name
                     /\ heap[course].start = heap[last].end + 1
                  THEN merge_courses(courses, k + 1, merged,
                           [heap EXCEPT ![last].end = heap[course].end])
                  ELSE merge_courses(courses, k + 1, Append(merged, course), heap)

\* Step 2 (lines 85-113), the weeks that are left in ascending order:
\* [lists, heap], lists being week -> 课程列表 as references.
RECURSIVE process_weeks(_, _, _, _)
process_weeks(week_courses, todo, lists, heap) ==
    IF todo = {} THEN [lists |-> lists, heap |-> heap]
    ELSE LET week == CHOOSE w \in todo : \A x \in todo : w <= x
             m == merge_courses(sort_courses(week_courses[week], heap), 1, <<>>, heap)
         IN  process_weeks(week_courses, todo \ {week},
                 [w \in DOMAIN lists \cup {week} |->
                     IF w = week THEN m.merged ELSE lists[w]],
                 m.heap)

\* linearize_schedule (lines 48-125): {} for an empty list; otherwise 总课程数
\* and, per week, the 课程列表 with the dicts as they are on return.
linearize_schedule(schedule_data) ==
    IF schedule_data = <<>> THEN [total |-> 0, data |-> <<>>]
    ELSE LET st == expand_weeks(schedule_data, 1, 1, [heap |-> <<>>, week_courses |-> <<>>])
             r == process_weeks(st.week_courses, DOMAIN st.week_courses, <<>>, st.heap)
         IN  [total |-> Len(schedule_data),
              data |-> [w \in DOMAIN r.lists |->
                           [k \in 1..Len(r.lists[w]) |-> r.heap[r.lists[w][k]]]]]

\* ----------------------------------------------------------- state machine
VARIABLES
    cache,      \* self.plugins_index_cache
    file,       \* data_dir/plugins_index.json
    legacy,     \* plugins_dir/plugins_index.json
    plugins,    \* school code -> plugins_dir/<code>
    backups,    \* the backup_<code>_<ts> directories of plugins_dir
    now,        \* int(time.time())
    sys_path,   \* the school codes whose plugin directory is on sys.path
    lastOp,     \* the call that was made last: [name, school_code, arg]
    ret,        \* what it returned
    reqs,       \* the HTTP requests it issued, in order
    v1, v2,     \* the two version strings of the comparator specification
    calls,      \* thread -> the call it is executing and the line it is at
    steps,      \* the steps the threads have taken, in order
    schedule_data   \* the list handed to linearize_schedule

vars == <<cache, file, legacy, plugins, backups, now, sys_path, lastOp, ret, reqs, v1, v2, schedule_data, calls, steps>>

Op(name, school_code, arg) == [name |-> name, school_code |-> school_code, arg |-> arg]
IndexState == [cache |-> cache, file |-> file, legacy |-> legacy]

\* Plugin directories a fresh process may find: none, one installed with
\* version.txt, one without version.txt whose __init__.py raises on load;
\* and, for the version lookup, one whose version.txt cannot be read.
DirV1 == Dir("ok", Absent, V1, "orig")
DirInit == Dir("raises", V2, Absent, "orig")
DirBadTxt == Dir("ok", V2, Unreadable, "orig")
InitDirs == {NoDir, DirV1, DirInit}

\* The state after PluginManager.__init__ (lines 33-69): the cache is empty;
\* the files are whatever earlier runs left.
InitManager ==
    /\ cache = NoDoc
    /\ file \in {NoDoc, Old(ObjDoc), Old(ArrayDoc), Old(SpaceDoc), CorruptDoc}
    /\ legacy \in {NoDoc, LegacyDoc}
    /\ plugins \in [Codes -> InitDirs]
    /\ backups = {}
    /\ now = 0
    /\ sys_path = {}
    /\ lastOp = Op("init", None, NoRec)
    /\ ret = RetNone
    /\ reqs = <<>>
    /\ calls = [t \in Threads |-> IdleCall]
    /\ steps = <<>>

Init ==
    /\ InitManager
    /\ v1 = <<>>
    /\ v2 = <<>>
    /\ schedule_data = <<>>

IndexStep(name, school_code, o) ==
    /\ cache' = o.cache
    /\ file' = o.file
    /\ ret' = o.ret
    /\ reqs' = o.reqs
    /\ lastOp' = Op(name, school_code, NoRec)
    /\ UNCHANGED <<legacy, plugins, backups, now, sys_path, v1, v2, schedule_data, calls, steps>>

FetchIndex == \E o \in _fetch_plugins_index(IndexState) : IndexStep("fetch", None, o)

UpdateIndex == \E o \in update_plugins_index(IndexState) : IndexStep("update", None, o)

ClearCache ==
    IndexStep("clear", None,
              Out(clear_plugins_index_cache(IndexState).cache,
                  clear_plugins_index_cache(IndexState).file, "None", <<>>))

ForceRefresh ==
    \E o \in force_refresh_plugins_index(IndexState) : IndexStep("force_refresh", None, o)

GetPluginInfo ==
    \E c \in Codes : \E o \in get_plugin_info_from_index(IndexState, c) :
        IndexStep("get_plugin_info", c, o)

\* The caller has taken the result of the last call: nothing is pending.
Idle == lastOp.name \in {"init", "idle"}

Return ==
    /\ ~Idle
    /\ lastOp' = Op("idle", None, NoRec)
    /\ ret' = RetNone
    /\ reqs' = <<>>
    /\ UNCHANGED <<cache, file, legacy, plugins, backups, now, sys_path, v1, v2, schedule_data, calls, steps>>

\* check_plugin_update, called once the result of the call before it is taken.
CheckUpdate ==
    /\ Idle
    /\ \E c \in Codes : \E o \in check_plugin_update(IndexState, c, plugins[c]) :
           IndexStep("check", c, o)

\* Descriptors handed to the installer besides the one the last check returned.
InstallInputs ==
    {Rec("10546", V2, "shaA", "urlA"),
     Rec("10546", V2sp, "", "urlA"),
     Rec("10546", Absent, "shaA", "urlA"),
     Rec("10546", Num(<<"2">>), "shaA", "urlA"),
     Rec("10546", V2, "shaX", "urlA"),
     Rec("10546", V2, "", "urlX"),
     Rec("10546", V2, "shaA", ""),
     Rec("10546", V2, "shaA", None)}

InstallStep(c, d, o) ==
    /\ Cardinality(o.backups) <= MaxBackups
    /\ plugins' = o.plugins
    /\ backups' = o.backups
    /\ ret' = o.ret
    /\ reqs' = o.reqs
    /\ lastOp' = Op("install", c, d)
    /\ UNCHANGED <<cache, file, legacy, now, sys_path, v1, v2, schedule_data, calls, steps>>

\* download_and_install_plugin(c, d) of any descriptor made out for c.
Install ==
    \E c \in Codes : \E d \in {i \in InstallInputs : i.school_code = c} :
    \E o \in download_and_install_plugin(
                 [plugins |-> plugins, backups |-> backups], c, d, now) :
        InstallStep(c, d, o)

\* The install of PluginUpdateWorker.run and of the plugin tab: the
\* descriptor is the one check_plugin_update has just returned for the school.
InstallUpdate ==
    /\ lastOp.name = "check"
    /\ ret.kind = "desc"
    /\ \E o \in download_and_install_plugin(
                    [plugins |-> plugins, backups |-> backups],
                    lastOp.school_code, ret.desc, now) :
           InstallStep(lastOp.school_code, ret.desc, o)

LoadPlugin ==
    \E c \in Codes :
        /\ ret' = load_plugin(plugins[c], c, sys_path).ret
        /\ sys_path' = load_plugin(plugins[c], c, sys_path).sys_path
        /\ reqs' = <<>>
        /\ lastOp' = Op("load", c, NoRec)
        /\ UNCHANGED <<cache, file, legacy, plugins, backups, now, v1, v2, schedule_data, calls, steps>>

\* _get_local_plugin_version(c), as the plugin tab calls it for its list.
GetLocalVersion ==
    \E c \in Codes :
        /\ ret' = _get_local_plugin_version(plugins[c])
        /\ reqs' = <<>>
        /\ lastOp' = Op("local_version", c, NoRec)
        /\ UNCHANGED <<cache, file, legacy, plugins, backups, now, sys_path, v1, v2, schedule_data, calls, steps>>

\* A second passes.
Tick ==
    /\ now < MaxTime
    /\ now' = now + 1
    /\ lastOp' = Op("tick", None, NoRec)
    /\ ret' = "None"
    /\ reqs' = <<>>
    /\ UNCHANGED <<cache, file, legacy, plugins, backups, sys_path, v1, v2, schedule_data, calls, steps>>

\* The index cache and the update check; the plugin directories stay as found.
Next ==
    \/ FetchIndex
    \/ UpdateIndex
    \/ ClearCache
    \/ ForceRefresh
    \/ GetPluginInfo
    \/ CheckUpdate
    \/ Return

Spec == Init /\ [][Next]_vars

\* The four index operations alone, in any order, on one thread.
NextIndex ==
    \/ FetchIndex
    \/ UpdateIndex
    \/ ClearCache
    \/ ForceRefresh

SpecIndex == Init /\ [][NextIndex]_vars

\* The installer and the loader on the plugins directory.
NextInstall ==
    \/ Install
    \/ LoadPlugin
    \/ Tick

InitInstall ==
    /\ Init
    /\ file = NoDoc
    /\ legacy = NoDoc

SpecInstall == InitInstall /\ [][NextInstall]_vars

\* The version lookup between installs, over every directory state.
InitLocalVersion ==
    /\ cache = NoDoc
    /\ file = NoDoc
    /\ legacy = NoDoc
    /\ plugins \in [Codes -> InitDirs \cup {DirBadTxt}]
    /\ backups = {}
    /\ now = 0
    /\ sys_path = {}
    /\ lastOp = Op("init", None, NoRec)
    /\ ret = RetNone
    /\ reqs = <<>>
    /\ calls = [t \in Threads |-> IdleCall]
    /\ steps = <<>>
    /\ v1 = <<>>
    /\ v2 = <<>>
    /\ schedule_data = <<>>

SpecLocalVersion == InitLocalVersion /\ [][Install \/ GetLocalVersion]_vars

\* Two threads call download_and_install_plugin for the same school with
\* the descriptor of the same update; each step is one line of the method.
Installers == {1, 2}
ConcurrentCode == "10546"
ConcurrentInfo == Rec("10546", V2, "shaA", "urlA")
OtherCalls(t) == {calls[u] : u \in Threads \ {t}}

CallStep(t, name, call) ==
    /\ calls' = [calls EXCEPT ![t] = call]
    /\ steps' = Append(steps, [t |-> t, step |-> name])
    /\ lastOp' = Op(name, ConcurrentCode, NoRec)
    /\ UNCHANGED <<cache, file, legacy, now, sys_path, ret, reqs, v1, v2, schedule_data>>

InstallDownload(t) ==
    /\ calls[t].pc = "idle"
    /\ \E call \in install_download(calls[t], ConcurrentInfo) : CallStep(t, "download", call)
    /\ UNCHANGED <<plugins, backups>>

InstallPreCheck(t) ==
    /\ calls[t].pc = "downloaded"
    /\ \E call \in install_precheck(calls[t], OtherCalls(t), plugins[ConcurrentCode]) :
           CallStep(t, "precheck", call)
    /\ UNCHANGED <<plugins, backups>>

InstallMove(t) ==
    /\ calls[t].pc = "checked"
    /\ LET o == install_move(calls[t], Fs(plugins, backups, TRUE, <<>>), ConcurrentCode, now)
       IN  /\ CallStep(t, IF o.call.pc = "backed" THEN "backup" ELSE "backup_failed", o.call)
           /\ plugins' = o.fs.plugins
           /\ backups' = o.fs.backups

InstallExtract(t) ==
    /\ calls[t].pc \in {"backed", "extracting"}
    /\ LET k == IF calls[t].pc = "backed" THEN 1 ELSE 2
           zip == ZipAt(calls[t].plugin_info.download_url)
       IN  IF ~zip.readable
           THEN /\ CallStep(t, "extract_failed", [calls[t] EXCEPT !.pc = "done", !.ret = "False"])
                /\ UNCHANGED <<plugins, backups>>
           ELSE /\ CallStep(t, IF k = 1 THEN "extract1" ELSE "extract2",
                            [calls[t] EXCEPT !.pc = IF k = 1 THEN "extracting" ELSE "extracted"])
                /\ plugins' = [plugins EXCEPT ![ConcurrentCode] =
                                   extract_member(plugins[ConcurrentCode], zip, k)]
                /\ UNCHANGED backups

InstallWriteVersion(t) ==
    /\ calls[t].pc = "extracted"
    /\ LET o == install_write_version(calls[t], plugins[ConcurrentCode])
       IN  /\ CallStep(t, IF o.call.ret = "True" THEN "write_version" ELSE "write_failed", o.call)
           /\ plugins' = [plugins EXCEPT ![ConcurrentCode] = o.dir]
           /\ UNCHANGED backups

\* The next line of the call of thread t.
InstallCall(t) ==
    \/ InstallDownload(t)
    \/ InstallPreCheck(t)
    \/ InstallMove(t)
    \/ InstallExtract(t)
    \/ InstallWriteVersion(t)

NextConcurrentInstall ==
    \/ \E t \in Installers : InstallCall(t)
    \/ Tick

SpecConcurrentInstall == InitInstall /\ [][NextConcurrentInstall]_vars

\* Thread 1 calls force_refresh_plugins_index, the others
\* _fetch_plugins_index, on the one manager; each step is one access to
\* self.plugins_index_cache or to the index file.
Refresher == 1
OpOf(t) == IF t = Refresher THEN "force_refresh" ELSE "fetch"

IndexCallStep(t, name, call) ==
    /\ calls' = [calls EXCEPT ![t] = call]
    /\ lastOp' = Op(name, None, NoRec)
    /\ UNCHANGED <<legacy, plugins, backups, now, sys_path, ret, reqs, v1, v2, schedule_data, steps>>

\* Lines 777-783: the cache cleared, then the index file unlinked.
RefreshReset(t) ==
    /\ t = Refresher
    /\ \/ /\ calls[t].pc = "idle"
          /\ cache' = clear_plugins_index_cache(IndexState).cache
          /\ file' = file
          /\ IndexCallStep(t, "refresh_clear",
                           IndexCall("force_refresh", "unlink", NoDoc, "None", FALSE))
       \/ /\ calls[t].pc = "unlink"
          /\ cache' = cache
          /\ file' = NoDoc
          /\ IndexCallStep(t, "refresh_unlink", [calls[t] EXCEPT !.pc = "check_cache"])

FetchCheckCache(t) ==
    /\ \/ t # Refresher /\ calls[t].pc = "idle"
       \/ calls[t].pc = "check_cache"
    /\ IndexCallStep(t, "check_cache", fetch_check_cache(OpOf(t), cache))
    /\ UNCHANGED <<cache, file>>

FetchReadLocal(t) ==
    /\ calls[t].pc \in {"local", "fallback"}
    /\ IndexCallStep(t, "read_local", fetch_read_local(calls[t], file, legacy).call)
    /\ file' = fetch_read_local(calls[t], file, legacy).file
    /\ UNCHANGED cache

FetchRequest(t) ==
    /\ calls[t].pc = "request"
    /\ \E o \in {Net("ok", ObjDoc), Net("url", NoDoc)} :
           IndexCallStep(t, "request", fetch_request(calls[t], o))
    /\ UNCHANGED <<cache, file>>

\* Lines 616-619: open(..., 'w') truncates the file, json.dump fills it.
FetchWrite(t) ==
    /\ calls[t].pc \in {"open", "dump"}
    /\ \/ /\ calls[t].pc = "open"
          /\ file' = PartialDoc
          /\ IndexCallStep(t, "open", [calls[t] EXCEPT !.pc = "dump"])
       \/ /\ calls[t].pc = "dump"
          /\ file' = calls[t].index_data
          /\ IndexCallStep(t, "dump", [calls[t] EXCEPT !.pc = "assign"])
    /\ UNCHANGED cache

FetchAssign(t) ==
    /\ calls[t].pc = "assign"
    /\ cache' = fetch_assign(calls[t], cache).cache
    /\ IndexCallStep(t, "assign", fetch_assign(calls[t], cache).call)
    /\ UNCHANGED file

NextConcurrentIndex ==
    \E t \in Threads :
        \/ RefreshReset(t)
        \/ FetchCheckCache(t)
        \/ FetchReadLocal(t)
        \/ FetchRequest(t)
        \/ FetchWrite(t)
        \/ FetchAssign(t)

\* The index files are what an earlier run left; no plugin is installed.
InitConcurrentIndex ==
    /\ Init
    /\ plugins = [c \in Codes |-> NoDir]

SpecConcurrentIndex == InitConcurrentIndex /\ [][NextConcurrentIndex]_vars

\* The update protocol of the plugin tab: the cache cleared, the check, the
\* install of what the check returned, the load.
NextUpdate ==
    \/ ClearCache
    \/ CheckUpdate
    \/ InstallUpdate
    \/ LoadPlugin
    \/ Return

SpecUpdate == Init /\ [][NextUpdate]_vars

\* The version comparator on every pair of version strings of at most
\* MaxVerLen characters, and on the pairs the documentation names.
VerChars == {"0", "1", "2", ".", "-", "_", "a"}
RECURSIVE StringsUpTo(_)
StringsUpTo(n) ==
    IF n = 0 THEN {<<>>}
    ELSE StringsUpTo(n - 1) \cup
         {Append(s, c) : s \in {t \in StringsUpTo(n - 1) : Len(t) = n - 1}, c \in VerChars}
Examples ==
    {<<"1", ".", "2", ".", "0">>, <<"1", ".", "1", "0", ".", "0">>,
     <<"1", ".", "0">>, <<"1", ".", "0", ".", "0">>,
     <<"2", "0", "2", "4", "0", "1", "0", "1", "_", "1", "2", "0", "0">>,
     <<"2", "0", "2", "4", "0", "1", "0", "1", "_", "1", "1", "3", "0">>}
VerStrings == StringsUpTo(MaxVerLen) \cup Examples

InitVersion ==
    /\ InitManager
    /\ file = NoDoc
    /\ legacy = NoDoc
    /\ plugins = [c \in Codes |-> NoDir]
    /\ v1 \in VerStrings
    /\ v2 \in VerStrings
    /\ schedule_data = <<>>

CompareVersion ==
    /\ lastOp.name = "init"
    /\ ret' = _compare_version(Str(v1), Str(v2))
    /\ lastOp' = Op("compare", None, NoRec)
    /\ UNCHANGED <<cache, file, legacy, plugins, backups, now, sys_path, reqs, v1, v2, schedule_data, calls, steps>>

\* The comparator on values as an index document or a descriptor may hold
\* them: a JSON number, None, strings.  The arguments are kept in lastOp.
CompareInputs == {Num(<<"2">>), Absent, V1, V2, Vunknown}
CompareValues ==
    /\ lastOp.name = "init"
    /\ v1 = <<>>
    /\ v2 = <<>>
    /\ \E a \in CompareInputs, b \in CompareInputs :
           /\ ret' = _compare_version(a, b)
           /\ lastOp' = Op("compare_values", None,
                           [NoRec EXCEPT !.remote_version = a, !.local_version = b])
    /\ UNCHANGED <<cache, file, legacy, plugins, backups, now, sys_path, reqs, v1, v2, schedule_data, calls, steps>>

NextVersion == CompareVersion \/ CompareValues

SpecVersion == InitVersion /\ [][NextVersion]_vars

\* The linearizer applied to a schedule: the result is kept in ret.
InitLinearize ==
    /\ InitManager
    /\ file = NoDoc
    /\ legacy = NoDoc
    /\ plugins = [c \in Codes |-> NoDir]
    /\ v1 = <<>>
    /\ v2 = <<>>
    /\ \E n \in 0..MaxItems : schedule_data \in [1..n -> Items]

Linearize ==
    /\ lastOp.name = "init"
    /\ ret' = linearize_schedule(schedule_data)
    /\ lastOp' = Op("linearize", None, NoRec)
    /\ UNCHANGED <<cache, file, legacy, plugins, backups, now, sys_path, reqs, v1, v2, schedule_data, calls, steps>>

SpecLinearize == InitLinearize /\ [][Linearize]_vars

\* =================================================================== claims
\* A version string made of digit segments separated by '.', '-' or '_'.
Separators == {".", "-", "_"}
WellFormed(s) ==
    /\ Len(s) > 0
    /\ \A i \in 1..Len(s) : s[i] \in Digits \cup Separators
    /\ s[1] \in Digits
    /\ s[Len(s)] \in Digits
    /\ \A i \in 1..(Len(s) - 1) : ~(s[i] \in Separators /\ s[i + 1] \in Separators)

\* The integer segments of a well-formed string: the values of its maximal
\* runs of digits, in order.
RECURSIVE Pow10(_)
Pow10(n) == IF n = 0 THEN 1 ELSE 10 * Pow10(n - 1)
RECURSIVE SumDigits(_, _, _)
SumDigits(s, i, j) ==
    IF i > j THEN 0 ELSE DigitVal(s[i]) * Pow10(j - i) + SumDigits(s, i + 1, j)
RunStarts(s) == {i \in 1..Len(s) : s[i] \in Digits /\ (i = 1 \/ s[i - 1] \notin Digits)}
RunEnd(s, i) ==
    CHOOSE j \in i..Len(s) :
        /\ \A k \in i..j : s[k] \in Digits
        /\ (j = Len(s) \/ s[j + 1] \notin Digits)
Segments(s) ==
    LET nth(k) == CHOOSE i \in RunStarts(s) :
                      Cardinality({j \in RunStarts(s) : j < i}) = k - 1
    IN  [k \in 1..Cardinality(RunStarts(s)) |-> SumDigits(s, nth(k), RunEnd(s, nth(k)))]

\* The sign of the left-to-right comparison of p and q, the shorter one
\* read as padded with zeros.
At(p, i) == IF i <= Len(p) THEN p[i] ELSE 0
LexSign(p, q) ==
    LET n == IF Len(p) > Len(q) THEN Len(p) ELSE Len(q)
        diff == {i \in 1..n : At(p, i) # At(q, i)}
    IN  IF diff = {} THEN 0
        ELSE LET m == CHOOSE i \in diff : \A j \in diff : i <= j
             IN  IF At(p, m) > At(q, m) THEN 1 ELSE -1

\* C1: for version strings made of digit segments separated by '.', '-' or
\* '_', _compare_version returns the sign of the left-to-right comparison of
\* their integer segment sequences, the shorter one padded with zeros;
\* segments compare as numbers ("1.2.0" < "1.10.0").
C1_CompareIsNumericLex ==
    (lastOp.name = "compare" /\ WellFormed(v1) /\ WellFormed(v2))
        => ret = LexSign(Segments(v1), Segments(v2))

C1_Witness ==
    /\ lastOp.name = "compare"
    /\ v1 = <<"1", ".", "2", ".", "0">>
    /\ v2 = <<"1", ".", "1", "0", ".", "0">>
    /\ ret = -1


\* The record of an index document that a lookup of school_code is to
\* find: the first in list order, whichever shape the document has.
HasRecord(doc, school_code) ==
    TruthyDoc(doc) /\ \E i \in 1..Len(doc.plugins) : doc.plugins[i].school_code = school_code
FirstRecord(doc, school_code) == doc.plugins[first_match(doc.plugins, school_code)]

\* C2: when the index holds a record for school_code, check_plugin_update
\* returns a descriptor, with the record's plugin_version as remote_version
\* and the installed version as local_version, if and only if the remote
\* version compares strictly greater than the local one, and None otherwise.
C2_DescriptorIffNewer ==
    (lastOp.name = "check" /\ HasRecord(cache, lastOp.school_code)) =>
        LET rec == FirstRecord(cache, lastOp.school_code)
            local == _get_local_plugin_version(plugins[lastOp.school_code])
        IN  IF _compare_version(remote_version_of(rec), local) > 0
            THEN /\ ret.kind = "desc"
                 /\ ret.desc.remote_version = rec.plugin_version
                 /\ ret.desc.local_version = local
            ELSE ret.kind = "none"

\* C3: the first _fetch_plugins_index after force_refresh_plugins_index
\* returns no index content that was stored locally before the refresh.
C3_NoStaleIndexAfterRefresh ==
    [][(lastOp.name = "force_refresh" /\ lastOp'.name = "fetch" /\ ret'.kind # "none")
           => ret'.origin = "new"]_vars

\* C4: with download_url missing or empty, or a failed download (a SHA-256
\* mismatch included), download_and_install_plugin returns False and the
\* plugins directory is as it was: nothing renamed, backed up or extracted.
ShaMismatch(d) ==
    d.download_url \in Served /\ Truthy(d.sha256) /\ d.sha256 # ZipAt(d.download_url).sha
C4_FailedDownloadChangesNothing ==
    [][(/\ lastOp'.name = "install"
        /\ \/ ~Truthy(lastOp'.arg.download_url)
           \/ reqs' = <<"download_failed">>
           \/ ShaMismatch(lastOp'.arg))
           => (ret' = FALSE /\ plugins' = plugins /\ backups' = backups)]_vars

C4_Witness ==
    /\ lastOp.name = "install"
    /\ ShaMismatch(lastOp.arg)
    /\ reqs = <<"download_failed">>
    /\ ret = FALSE
    /\ plugins[lastOp.school_code] # NoDir

\* C5: every successful install over an existing plugin directory creates
\* exactly one new directory backup_<school_code>_<unix-seconds>, holding
\* exactly the prior plugin directory; also for two installs in one second.
C5_OneNewBackupPerInstall ==
    [][(/\ lastOp'.name = "install"
        /\ ret' = TRUE
        /\ plugins[lastOp'.school_code] # NoDir)
           => \E b \in backups' \ backups :
                  /\ backups' = backups \cup {b}
                  /\ b = Backup(lastOp'.school_code, now, plugins[lastOp'.school_code], <<>>)]_vars


\* C6: from an empty plugins directory and the bare-array index holding the
\* record of 10546 (version 20240601, valid sha256 and download_url),
\* check_plugin_update('10546') returns a descriptor, the install of that
\* descriptor returns True once its download succeeded, and load_plugin of
\* the directory it extracted returns a module.
EmptyPluginsDir == (\A c \in Codes : plugins[c] = NoDir) /\ backups = {}
C6_EndToEndBareArray ==
    /\ (/\ lastOp.name = "check"
        /\ lastOp.school_code = "10546"
        /\ Content(cache) = Content(ArrayDoc)
        /\ EmptyPluginsDir) => ret.kind = "desc"
    /\ (/\ lastOp.name = "install"
        /\ lastOp.school_code = "10546"
        /\ lastOp.arg.plugin_version = V20240601
        /\ reqs = <<"download_ok">>
        /\ backups = {}) => ret = TRUE
    /\ (/\ lastOp.name = "load"
        /\ lastOp.school_code = "10546"
        /\ plugins["10546"].payload = "zipA") => ret = "module"

\* C7 as stated: after a successful install of d, _get_local_plugin_version
\* returns d's plugin_version.
C7_LocalVersionIsDescriptorVersion ==
    (lastOp.name = "install" /\ ret = TRUE) =>
        _get_local_plugin_version(plugins[lastOp.school_code]) = lastOp.arg.plugin_version

\* C7, amended: after a successful install of d, _get_local_plugin_version
\* returns d's plugin_version with leading and trailing whitespace removed,
\* and 'unknown' when d has no plugin_version, whatever version.txt or
\* version constant the extracted ZIP contained.
C7_LocalVersionIsStrippedDescriptorVersion ==
    (lastOp.name = "install" /\ ret = TRUE) =>
        _get_local_plugin_version(plugins[lastOp.school_code]) =
            IF lastOp.arg.plugin_version.t = "absent" THEN Vunknown
            ELSE Str(strip(lastOp.arg.plugin_version.s))

C7_Witness ==
    /\ lastOp.name = "install"
    /\ ret = TRUE
    /\ lastOp.arg.plugin_version = V2sp
    /\ plugins[lastOp.school_code].init_version = Str(<<"3">>)
    /\ _get_local_plugin_version(plugins[lastOp.school_code]) = V2

\* C8: every descriptor check_plugin_update returns carries a non-empty
\* download_url, whichever path produced it.
C8_DescriptorHasDownloadUrl ==
    (lastOp.name = "check" /\ ret.kind = "desc") => Truthy(ret.desc.download_url)

\* C9: get_plugin_info_from_index returns the first record of the index
\* whose school_code equals the argument, for a bare array as for an object
\* with a 'plugins' array, and None when no record matches.
C9_LookupFindsFirstRecordInBothShapes ==
    lastOp.name = "get_plugin_info" =>
        IF HasRecord(cache, lastOp.school_code)
        THEN /\ ret.pos = first_match(cache.plugins, lastOp.school_code)
             /\ ret.rec = FirstRecord(cache, lastOp.school_code)
        ELSE ret.pos = 0 /\ ret.rec = NoRec

\* C10: clear_plugins_index_cache sets the in-memory cache to None and
\* leaves the index file and every plugin and backup directory unchanged.
C10_ClearChangesOnlyCache ==
    [][lastOp'.name = "clear" =>
           /\ cache' = NoDoc
           /\ file' = file
           /\ legacy' = legacy
           /\ plugins' = plugins
           /\ backups' = backups]_vars

C10_Witness ==
    /\ lastOp.name = "clear"
    /\ cache = NoDoc
    /\ file # NoDoc
    /\ backups # {}


\* C11: load_plugin returns None, and does not raise, when the plugin
\* directory has no __init__.py and when executing __init__.py raises; it
\* returns the module otherwise.
C11_LoadReturnsModuleOrNone ==
    lastOp.name = "load" =>
        ret = IF plugins[lastOp.school_code].entry = "ok" THEN "module" ELSE "None"

C11_Witness ==
    /\ lastOp.name = "load"
    /\ plugins[lastOp.school_code].entry = "raises"
    /\ ret = "None"


\* C12: _fetch_plugins_index, get_plugin_info_from_index and
\* check_plugin_update end with a value (an index, a record, a descriptor or
\* None), never with an exception, whatever the network does and whatever
\* shape the index document has.
C12_NoExceptionReachesCaller ==
    /\ lastOp.name = "fetch" => ret.kind \in {"none", "object", "array", "object_num"}
    /\ lastOp.name = "get_plugin_info" => ~ret.raised
    /\ lastOp.name = "check" => ret.kind \in {"none", "desc"}

\* C13: _compare_version returns 0, and does not raise, when one of its
\* arguments is not a string (a JSON number, None).
C13_NonStringComparesEqual ==
    /\ lastOp.name \in {"compare", "compare_values"} => ret \in {-1, 0, 1}
    /\ (/\ lastOp.name = "compare_values"
        /\ \/ lastOp.arg.remote_version.t # "str"
           \/ lastOp.arg.local_version.t # "str") => ret = 0

C13_Witness ==
    /\ lastOp.name = "compare_values"
    /\ lastOp.arg.remote_version = Num(<<"2">>)
    /\ lastOp.arg.local_version = V1
    /\ ret = 0

\* A numeric segment of s is a maximal run without separator, not empty and
\* all digits.
NumericRun(s, i, j) ==
    /\ i <= j
    /\ \A k \in i..j : s[k] \in Digits
    /\ i = 1 \/ s[i - 1] \in Separators
    /\ j = Len(s) \/ s[j + 1] \in Separators
NoNumericSegment(s) == ~\E i \in 1..Len(s), j \in 1..Len(s) : NumericRun(s, i, j)

\* C14: if one of the two version strings has no numeric segment,
\* _compare_version returns 0 whatever the other string is.
C14_NoSegmentsComparesEqual ==
    (lastOp.name = "compare" /\ (NoNumericSegment(v1) \/ NoNumericSegment(v2))) => ret = 0


\* What get_local_plugins_index finds on disk: the index file, and the
\* legacy copy in the plugins directory when there is no index file.
OnDiskIndex == IF file.kind # "none" THEN file ELSE legacy
NetworkOk(requests) == Len(requests) > 0 /\ requests[Len(requests)].k = "ok"

Positions(urls) == {i \in 1..Len(reqs) : reqs[i].req \in urls}
ApiUrls == {"api", "api_proxy"}
IndexUrls == {"index", "index_proxy"}

\* C16: check_plugin_update looks the school up in the index first, and when
\* the index it looked in has a record for the school it makes no
\* release-API request, directly or through the proxy.  (The index looked
\* in is the cached one unless the index was requested again after the API.)
C16_NoApiRequestWhenIndexed ==
    (lastOp.name = "check" /\ HasRecord(cache, lastOp.school_code)) =>
        \/ Positions(ApiUrls) = {}
        \/ \E i \in Positions(ApiUrls), j \in Positions(IndexUrls) : i < j

\* C17: in the index fetch and in the release-API fetch, a proxy request is
\* made at most once per call and only right after a direct request that
\* failed at transport level; an HTTP error status or a JSON decode error of
\* the direct request is followed by no proxy request.
DirectOf(url) == IF url = "index_proxy" THEN "index" ELSE "api"
C17_ProxyOnlyAfterTransportFailure ==
    lastOp.name \in {"fetch", "update", "force_refresh", "get_plugin_info", "check"} =>
        /\ \A i \in Positions({"index_proxy", "api_proxy"}) :
               /\ i > 1
               /\ reqs[i - 1].req = DirectOf(reqs[i].req)
               /\ reqs[i - 1].k = "url"
        /\ lastOp.name \in {"fetch", "update"} => Cardinality(Positions({"index_proxy"})) <= 1
        /\ Cardinality(Positions({"api_proxy"})) <= 1

\* C18 as stated: when the network step of _fetch_plugins_index has failed,
\* the call returns and caches the on-disk index if it is readable, and
\* returns None only if it is not.
C18_FallbackReturnsReadableIndex ==
    [][(lastOp'.name = "fetch" /\ Len(reqs') > 0 /\ ~NetworkOk(reqs')) =>
           IF file'.kind \notin {"none", "corrupt"}
           THEN ret' = file' /\ cache' = file'
           ELSE ret' = NoDoc]_vars

\* C18, amended: when the network step of _fetch_plugins_index has failed
\* (HTTP error or transport error with the proxy failing too, or malformed
\* JSON), the call returns and caches the on-disk index if it is readable
\* and not empty, and returns None otherwise.
C18_FallbackReturnsNonEmptyIndex ==
    [][(lastOp'.name = "fetch" /\ Len(reqs') > 0 /\ ~NetworkOk(reqs')) =>
           IF file'.kind # "corrupt" /\ TruthyDoc(file')
           THEN ret' = file' /\ cache' = file'
           ELSE ret' = NoDoc]_vars

C18_Witness ==
    /\ lastOp.name = "fetch"
    /\ reqs = <<Req("index", "url"), Req("index_proxy", "failed")>>
    /\ file = ObjDoc
    /\ ret = ObjDoc
    /\ cache = ObjDoc


\* shutil.move raises when the backup directory of this second already
\* holds a directory of the school.
BackupRaises(c) ==
    /\ plugins[c] # NoDir
    /\ \E b \in backups : b.code = c /\ b.ts = now /\ Len(b.nested) > 0

\* C19: download_and_install_plugin returns a boolean, never raises; when a
\* step fails (download, backup rename, extraction, version write) it
\* returns False and no later step is executed: nothing is backed up or
\* extracted after a failed download or backup, and version.txt is not
\* written after a failed extraction or write.
C19_InstallAbortsAtFailedStep ==
    [][lastOp'.name = "install" =>
           LET c == lastOp'.school_code
               d == lastOp'.arg
               zip == ZipAt(d.download_url)
           IN  /\ ret' \in BOOLEAN
               /\ reqs' = <<"download_failed">> =>
                      (ret' = FALSE /\ plugins' = plugins /\ backups' = backups)
               /\ (reqs' = <<"download_ok">> /\ BackupRaises(c)) =>
                      (ret' = FALSE /\ plugins' = plugins /\ backups' = backups)
               /\ (reqs' = <<"download_ok">> /\ ~BackupRaises(c) /\ ~zip.readable) =>
                      (ret' = FALSE /\ plugins'[c] = NoDir)
               /\ (/\ reqs' = <<"download_ok">>
                   /\ ~BackupRaises(c)
                   /\ zip.readable
                   /\ d.plugin_version.t = "num") =>
                      (ret' = FALSE /\ plugins'[c] = zip.dir)]_vars

C19_Witness ==
    /\ lastOp.name = "install"
    /\ reqs = <<"download_ok">>
    /\ lastOp.arg.download_url = "urlX"
    /\ ret = FALSE
    /\ plugins[lastOp.school_code] = NoDir
    /\ backups # {}

\* C20: after load_plugin has returned, sys.path is what it was before the
\* call, also when the entry module raised and when the plugin directory
\* was on the path before the call.
C20_LoadRestoresSysPath ==
    [][lastOp'.name = "load" => sys_path' = sys_path]_vars


C22_CheckLeavesIndexRecords ==
    [][lastOp'.name = "check" =>
           /\ TruthyDoc(cache) => cache' = cache
           /\ \A i \in 1..Len(cache'.plugins) :
                  /\ cache'.plugins[i].remote_version = Absent
                  /\ cache'.plugins[i].local_version = Absent]_vars


\* C23: backup directories only accumulate: every backup_* directory that
\* exists before a step of the plugin manager exists after it with the same
\* content; no operation deletes, renames or alters one.
C23_BackupsOnlyAccumulate ==
    [][\A b \in backups : b \in backups']_vars


\* The position in the log of the step of that name thread t took, 0 if none.
Pos(t, name) ==
    IF \E i \in 1..Len(steps) : steps[i] = [t |-> t, step |-> name]
    THEN CHOOSE i \in 1..Len(steps) : steps[i] = [t |-> t, step |-> name]
    ELSE 0

\* C24: concurrent download_and_install_plugin calls for one school are not
\* serialized: a call that has not returned is never kept waiting, its next
\* line can be executed whatever line the other call is at.
C24_InstallsNotSerialized ==
    \A t \in Installers : calls[t].pc # "done" => ENABLED InstallCall(t)

\* The interleaving of C24: both calls found the directory in their
\* pre-check before either moved it, both moved a directory to a backup, and
\* an extraction step of the second fell between the two extraction steps of
\* the first.
C24_Witness ==
    \E t \in Installers : \E u \in Installers \ {t} :
        /\ calls[t].exists /\ calls[u].exists
        /\ Pos(t, "precheck") > 0 /\ Pos(u, "precheck") > 0
        /\ Pos(u, "precheck") < Pos(t, "backup")
        /\ Pos(t, "backup") > 0 /\ Pos(t, "backup") < Pos(u, "backup")
        /\ Pos(t, "extract1") > 0
        /\ Pos(t, "extract1") < Pos(u, "extract1")
        /\ Pos(u, "extract1") < Pos(t, "extract2")


\* C25: the cache reference is unsynchronized, last write wins: every
\* assignment a call of _fetch_plugins_index makes (force_refresh's inner
\* call included) stores the index that call read or fetched, whatever the
\* cache holds by then and whatever the other calls have written since.
C25_LastWriteWins ==
    [][\A t \in Threads :
           (calls[t].pc = "assign" /\ calls'[t].pc = "done") =>
               cache' = calls[t].index_data]_vars

\* The race of C25: all calls have returned, the memory cache holds the index
\* from before the refresh, the index file the refreshed one, and one of
\* the calls has read the index file while it was partly written.
C25_Witness ==
    /\ \A t \in Threads : calls[t].pc = "done"
    /\ calls[Refresher].op = "force_refresh"
    /\ calls[Refresher].ret = "True"
    /\ TruthyDoc(cache) /\ cache.origin = "old"
    /\ TruthyDoc(file) /\ file.origin = "new"
    /\ \E t \in Threads : calls[t].saw_partial


\* Two descriptors offer the same update: the same version from the same
\* download.
SameUpdate(d, e) ==
    /\ d.plugin_version = e.plugin_version
    /\ d.download_url = e.download_url
    /\ d.sha256 = e.sha256

\* C26: update convergence: once download_and_install_plugin(c, d) has
\* returned True for the descriptor d that check_plugin_update(c) returned,
\* no outcome of the next check_plugin_update(c) offers the same update again.
C26_UpdateConverges ==
    (lastOp.name = "install" /\ ret = TRUE) =>
        \A o \in check_plugin_update(IndexState, lastOp.school_code,
                                     plugins[lastOp.school_code]) :
            ~(o.ret.kind = "desc" /\ SameUpdate(o.ret.desc, lastOp.arg))


\* C27: in single-threaded use of _fetch_plugins_index,
\* update_plugins_index, clear_plugins_index_cache and
\* force_refresh_plugins_index, whatever the network does, whenever the
\* memory cache is not empty the index file exists and holds the same
\* document as the cache.
C27_CacheMatchesFile ==
    TruthyDoc(cache) =>
        /\ file.kind \notin {"none", "corrupt", "partial"}
        /\ Content(file) = Content(cache)

C27_Witness ==
    /\ lastOp.name = "update"
    /\ ret = "False"
    /\ reqs = <<Req("index", "url"), Req("index_proxy", "failed")>>
    /\ TruthyDoc(cache)
    /\ Content(file) = Content(cache)


\* Every request of the call failed (a direct request, and the proxy request
\* after it when there was one).
AllFailed(requests) ==
    Len(requests) > 0 /\ \A i \in 1..Len(requests) : requests[i].k # "ok"

\* C28: force_refresh_plugins_index called with an index in memory and on
\* disk and no legacy file, every network attempt failing, returns False and
\* leaves neither memory nor disk with an index: the index held before is
\* gone from both (an index file found afterwards was written meanwhile by
\* another process), and _fetch_plugins_index then returns None as long as
\* the network fails.
C28_FailedRefreshLosesIndex ==
    [][/\ (/\ lastOp'.name = "force_refresh"
           /\ TruthyDoc(cache)
           /\ Content(file) = Content(cache)
           /\ legacy = NoDoc
           /\ AllFailed(reqs')) =>
              /\ file'.kind # "none" => file'.origin = "new"
              /\ cache'.kind # "none" => cache'.origin = "new"
              /\ file' = NoDoc => (ret' = FALSE /\ cache' = NoDoc)
       /\ (/\ lastOp'.name = "fetch"
           /\ lastOp.name = "force_refresh"
           /\ ret = FALSE
           /\ legacy = NoDoc
           /\ AllFailed(reqs')
           /\ file' = NoDoc) => (ret' = NoDoc /\ cache' = NoDoc)]_vars

C28_Witness ==
    /\ lastOp.name = "force_refresh"
    /\ ret = FALSE
    /\ reqs = <<Req("index", "http"), Req("index_proxy", "failed")>>
    /\ cache = NoDoc
    /\ file = NoDoc
    /\ legacy = NoDoc


\* C29: when update_plugins_index fails (an HTTP error, a transport error
\* with the proxy request failing too, a response that is not JSON) it
\* returns False and the memory cache and the index file are as they were
\* before the call; they are written only once a response has been fetched
\* and decoded.
C29_FailedUpdateChangesNothing ==
    [][(lastOp'.name = "update" /\ ~NetworkOk(reqs')) =>
           /\ ret' = "False"
           /\ cache' = cache
           /\ file' = file]_vars


\* C30: linearize_schedule merges, week by week, the entries of one weekday
\* and one course whose periods follow one another (next start = previous
\* end + 1): in the list of a week no two neighbours can still be merged, an
\* entry of the list spans from the start of a first input entry of that
\* week to the end of a last one along a chain of consecutive entries, the
\* list of a week is what the entries of that week alone give, and the
\* input list is as it was.
Mergeable(a, b) == a.weekday = b.weekday /\ a.name = b.name /\ b.start = a.end + 1
InputEntries(items, week) ==
    {Entry(items[i], week) : i \in {x \in DOMAIN items : \E j \in DOMAIN items[x].weeks : items[x].weeks[j] = week}}
Chains(items, week) ==
    {c \in UNION {[1..n -> InputEntries(items, week)] : n \in 1..MaxItems} :
        \A k \in 1..(Len(c) - 1) : Mergeable(c[k], c[k + 1])}
OnlyWeek(items, week) ==
    [i \in DOMAIN items |->
        [items[i] EXCEPT !.weeks = SelectSeq(items[i].weeks, LAMBDA w : w = week)]]
C30_ConsecutivePeriodsMerged ==
    [][lastOp'.name = "linearize" =>
        /\ schedule_data' = schedule_data
        /\ \A w \in DOMAIN ret'.data :
              LET out == ret'.data[w] IN
              /\ \A k \in 1..(Len(out) - 1) : ~Mergeable(out[k], out[k + 1])
              /\ \A k \in 1..Len(out) :
                    \E c \in Chains(schedule_data, w) :
                        out[k] = [c[1] EXCEPT !.end = c[Len(c)].end]
              /\ out = linearize_schedule(OnlyWeek(schedule_data, w)).data[w]]_vars

\* An item of weeks 2 and 1 is merged in week 1 with an item of week 1
\* alone, and stands unmerged in week 2.
C30_Witness ==
    /\ lastOp.name = "linearize"
    /\ Len(schedule_data) = 2
    /\ schedule_data[1].weeks = <<2, 1>>
    /\ schedule_data[2].weeks = <<1>>
    /\ Mergeable(schedule_data[1], schedule_data[2])
    /\ ret.data[1] = <<[Entry(schedule_data[1], 1) EXCEPT !.end = schedule_data[2].end]>>
    /\ ret.data[2] = <<Entry(schedule_data[1], 2)>>

====
